---- MODULE Spec2Model ----
(***************************************************************************)
(* A model of the quantum-algorithms demo scripts.                         *)
(*                                                                         *)
(* Part 1 (specification Spec) models one run of one script: the module    *)
(* body, the __main__ block with its try/except, the run_* function with   *)
(* its connect / build / submit / result / extract steps and loops, the    *)
(* analysis and the handler.                                               *)
(*                                                                         *)
(* The later parts model the classical content of single functions (the    *)
(* gate lists of the circuits acting on computational-basis states, and    *)
(* the post-processing), each under a specification of its own.            *)
(***************************************************************************)
EXTENDS Integers, Sequences, FiniteSets, TLC

VARIABLES
    script,     \* which script is being run
    cfgN,       \* shor-algorithm: N handed to run_shor
    cfgA,       \* shor-algorithm: a handed to run_shor (NoneA for None)
    pc,         \* position of the run
    jobsLeft,   \* circuits the run's loops still have to submit
    built,      \* circuits built so far
    submitted,  \* sampler.run calls so far
    retrieved,  \* job.result() calls that returned so far
    extracted,  \* count-extraction passes finished so far
    connected,  \* QiskitRuntimeService / least_busy done
    counts,     \* what the last extraction left in counts
    exc,        \* class of the exception that propagated out of a step
    raisedAt,   \* position where that exception was raised
    swallowed,  \* exceptions caught by a local bare except
    defaulted,  \* a missing result was replaced by a default value
    trivial,    \* run_shor returned a trivial factorisation
    printed,    \* kinds of output printed so far
    fn          \* state of the function under study (parts 2..); Idle in Spec

vars == <<script, cfgN, cfgA, pc, jobsLeft, built, submitted, retrieved,
          extracted, connected, counts, exc, raisedAt, swallowed,
          defaulted, trivial, printed, fn>>

Idle == [op |-> "idle"]

(***************************************************************************)
(* Part 1: one run of a script                                             *)
(***************************************************************************)

Scripts ==
    { "amplitude-estimation", "bb84-with-eavesdropping",
      "bb84-without-eavesdropping", "bernstein-vazirani-algorithm",
      "deutsch-algorithm", "deutsch-jozsa-algorithm", "e91-protocol",
      "error-correction", "grover-algorithm", "hhl-algorithm", "qaoa",
      "quantum-counting", "bit-flip-code", "shor-9qubit-code",
      "steane-7qubit-code", "quantum-fourier-transform",
      "quantum-phase-estimation", "quantum-teleportation", "quantum-walk",
      "shor-algorithm", "simon-algorithm", "superdense-coding", "swap-test",
      "vqe" }

\* error-correction/main.py is a bare module body: no __main__ block, no try.
HasMainGuard(s) == s # "error-correction"

\* e91: four CHSH measurements, then n_rounds key rounds, one job each.
ChshMeasurements == 4
E91Rounds == 5
\* vqe: max_iterations iterations, one job per non-identity Hamiltonian term.
VqeMaxIterations == 3
VqeNonIdentityTerms == 5
\* qaoa: one job per iteration.
QaoaMaxIterations == 3
\* swap-test: one job per test case; the two codes: one job per test case.
SwapTestCases == 5
ShorCodeTestCases == 3
SteaneCodeTestCases == 3

\* Number of sampler.run calls the loops of run_* make when nothing fails.
JobsPerRun(s) ==
    CASE s = "error-correction"    -> 0
      [] s = "e91-protocol"        -> ChshMeasurements + E91Rounds
      [] s = "vqe"                 -> VqeMaxIterations * VqeNonIdentityTerms
      [] s = "qaoa"                -> QaoaMaxIterations
      [] s = "swap-test"           -> SwapTestCases
      [] s = "shor-9qubit-code"    -> ShorCodeTestCases
      [] s = "steane-7qubit-code"  -> SteaneCodeTestCases
      [] OTHER                     -> 1

\* The two BB84 scripts build their circuit before they connect.
BuildBeforeConnect(s) ==
    s \in {"bb84-with-eavesdropping", "bb84-without-eavesdropping"}

\* qaoa and vqe build one more circuit after the loop, for display only.
FinalBuild(s) == s \in {"qaoa", "vqe"}

\* How the counts are read from the result:
\*   guarded: for attr in dir(data): try: ... get_counts() except: pass
\*   direct:  res.data.c.get_counts(), no local handler
\*   direct_then_guarded: data.meas.get_counts() first, then the guarded loop
ReadStyle(s) ==
    CASE s = "bb84-without-eavesdropping" -> "direct"
      [] s = "quantum-teleportation"      -> "direct_then_guarded"
      [] OTHER                            -> "guarded"

\* Exception classes a step can raise. KeyboardInterrupt derives from
\* BaseException, not from Exception.
ExcClasses == {"ValueError", "RuntimeError", "KeyboardInterrupt"}

IsException(cls) == cls # "KeyboardInterrupt"

\* A handler narrowed to one exception class.
TopLevelCatchesOnlyRuntime(s, cls) == HasMainGuard(s) /\ cls = "RuntimeError"

\* except Exception as e: of the __main__ block
TopLevelCatches(s, cls) == HasMainGuard(s) /\ IsException(cls)

NoneA == -1
ShorNs == {2, 6, 9, 15}
ShorAs == {NoneA, 5, 7}

RECURSIVE gcd(_, _)
gcd(x, y) == IF y = 0 THEN x ELSE gcd(y, x % y)

RECURSIVE Pow(_, _)
Pow(b, e) == IF e = 0 THEN 1 ELSE b * Pow(b, e - 1)

RECURSIVE Log2Floor(_)
Log2Floor(n) == IF n < 2 THEN 0 ELSE 1 + Log2Floor(n \div 2)

\* run_shor's prime-power test: some k in 2..int(log2 N) has an integer k-th root
IsPrimePower(n) ==
    \E k \in 2..Log2Floor(n) : \E root \in 1..n : Pow(root, k) = n

DefaultA == 7

RunInit ==
    /\ script \in Scripts
    /\ IF script = "shor-algorithm"
         THEN cfgN \in ShorNs /\ cfgA \in ShorAs
         ELSE cfgN = 0 /\ cfgA = 0
    /\ pc = "module"
    /\ jobsLeft = JobsPerRun(script)
    /\ built = 0 /\ submitted = 0 /\ retrieved = 0 /\ extracted = 0
    /\ connected = FALSE
    /\ counts = "unset"
    /\ exc = "none" /\ raisedAt = "none"
    /\ swallowed = 0
    /\ defaulted = FALSE
    /\ trivial = FALSE
    /\ printed = {}

Init == RunInit /\ fn = Idle

\* An exception of class cls leaves the current step.
Propagate(cls) ==
    /\ exc' = cls
    /\ raisedAt' = pc
    /\ pc' = IF pc # "module" /\ TopLevelCatches(script, cls)
               THEN "handler" ELSE "traceback"

\* Module body: imports, load_dotenv(), os.getenv(); error-correction prints
\* its docstring and ends.
ModuleBody ==
    /\ pc = "module"
    /\ IF HasMainGuard(script)
         THEN pc' = "main" /\ printed' = printed
         ELSE pc' = "exit0" /\ printed' = printed \cup {"doc"}
    /\ UNCHANGED <<script, cfgN, cfgA, jobsLeft, built, submitted, retrieved,
                   extracted, connected, counts, exc, raisedAt, swallowed,
                   defaulted, trivial, fn>>

\* try: print(banner); results = run_*(...)
Main ==
    /\ pc = "main"
    /\ printed' = printed \cup {"banner"}
    /\ pc' = IF script = "shor-algorithm" THEN "validate"
             ELSE IF BuildBeforeConnect(script) THEN "build" ELSE "connect"
    /\ UNCHANGED <<script, cfgN, cfgA, jobsLeft, built, submitted, retrieved,
                   extracted, connected, counts, exc, raisedAt, swallowed,
                   defaulted, trivial, fn>>

\* run_shor, up to the connection
Validate ==
    /\ pc = "validate"
    /\ LET a == IF cfgA = NoneA THEN DefaultA ELSE cfgA IN
       IF cfgN < 3
         THEN Propagate("ValueError") /\ UNCHANGED <<trivial, jobsLeft>>
         ELSE IF cfgN % 2 = 0 \/ IsPrimePower(cfgN) \/ gcd(a, cfgN) > 1
           THEN /\ trivial' = TRUE
                /\ jobsLeft' = 0
                /\ pc' = "analyze"
                /\ UNCHANGED <<exc, raisedAt>>
           ELSE /\ pc' = "connect"
                /\ UNCHANGED <<trivial, jobsLeft, exc, raisedAt>>
    /\ UNCHANGED <<script, cfgN, cfgA, built, submitted, retrieved, extracted,
                   connected, counts, swallowed, defaulted, printed, fn>>

\* The circuit construction is skipped after the connection.
AfterConnectSkipBuild(s) == "submit"

\* QiskitRuntimeService(...); service.least_busy(...)
AfterConnect(s) == IF BuildBeforeConnect(s) THEN "submit" ELSE "build"

Connect ==
    /\ pc = "connect"
    /\ connected' = TRUE
    /\ pc' = AfterConnect(script)
    /\ UNCHANGED <<script, cfgN, cfgA, jobsLeft, built, submitted, retrieved,
                   extracted, counts, exc, raisedAt, swallowed, defaulted,
                   trivial, printed, fn>>

\* qc = create_*_circuit(...)
Build ==
    /\ pc = "build"
    /\ built' = built + 1
    /\ pc' = IF BuildBeforeConnect(script) THEN "connect" ELSE "submit"
    /\ UNCHANGED <<script, cfgN, cfgA, jobsLeft, submitted, retrieved,
                   extracted, connected, counts, exc, raisedAt, swallowed,
                   defaulted, trivial, printed, fn>>

\* Fire and forget: the next circuit is built without waiting for the result.
SubmitNoWait ==
    /\ pc = "submit"
    /\ submitted' = submitted + 1
    /\ jobsLeft' = jobsLeft - 1
    /\ pc' = IF jobsLeft > 1 THEN "build" ELSE "result"
    /\ UNCHANGED <<script, cfgN, cfgA, built, retrieved, extracted, connected,
                   counts, exc, raisedAt, swallowed, defaulted, trivial,
                   printed, fn>>

\* transpile(qc, backend); job = sampler.run([transpiled], shots=...)
Submit ==
    /\ pc = "submit"
    /\ submitted' = submitted + 1
    /\ jobsLeft' = jobsLeft - 1
    /\ pc' = "result"
    /\ UNCHANGED <<script, cfgN, cfgA, built, retrieved, extracted, connected,
                   counts, exc, raisedAt, swallowed, defaulted, trivial,
                   printed, fn>>

\* result = job.result(): blocks until the job is done
Result ==
    /\ pc = "result"
    /\ retrieved' = retrieved + 1
    /\ pc' = "extract"
    /\ UNCHANGED <<script, cfgN, cfgA, jobsLeft, built, submitted, extracted,
                   connected, counts, exc, raisedAt, swallowed, defaulted,
                   trivial, printed, fn>>

\* Where the run goes once the counts of a job are extracted.
AfterExtract ==
    IF jobsLeft > 0 THEN "build"
    ELSE IF FinalBuild(script) THEN "final" ELSE "analyze"

\* The guarded loop over the result's registers: a register read that raises
\* is skipped; when no register yields counts the default stays.
GuardedRead ==
    \E outcome \in {"data", "missing", "raises_then_data", "raises_then_missing"} :
        /\ swallowed' = IF outcome \in {"raises_then_data", "raises_then_missing"}
                          THEN swallowed + 1 ELSE swallowed
        /\ counts' = IF outcome \in {"data", "raises_then_data"}
                       THEN "data" ELSE "default"
        /\ defaulted' = (defaulted \/ outcome \in {"missing", "raises_then_missing"})
        /\ extracted' = extracted + 1
        /\ pc' = AfterExtract
        /\ UNCHANGED <<exc, raisedAt>>

\* A read with no local handler: it yields counts or raises.
DirectRead(mayBeEmpty) ==
    \/ /\ counts' = "data"
       /\ extracted' = extracted + 1
       /\ pc' = AfterExtract
       /\ UNCHANGED <<exc, raisedAt, swallowed, defaulted>>
    \/ /\ \E cls \in ExcClasses : Propagate(cls)
       /\ UNCHANGED <<counts, extracted, swallowed, defaulted>>
    \/ /\ mayBeEmpty
       /\ GuardedRead

Extract ==
    /\ pc = "extract"
    /\ CASE ReadStyle(script) = "guarded" -> GuardedRead
         [] ReadStyle(script) = "direct" -> DirectRead(FALSE)
         [] OTHER -> DirectRead(TRUE)
    /\ UNCHANGED <<script, cfgN, cfgA, jobsLeft, built, submitted, retrieved,
                   connected, trivial, printed, fn>>

\* qaoa: final_circuit = create_qaoa_circuit(...); vqe: final_ansatz
Final ==
    /\ pc = "final"
    /\ built' = built + 1
    /\ pc' = "analyze"
    /\ UNCHANGED <<script, cfgN, cfgA, jobsLeft, submitted, retrieved,
                   extracted, connected, counts, exc, raisedAt, swallowed,
                   defaulted, trivial, printed, fn>>

\* analyze_results(results)
Analyze ==
    /\ pc = "analyze"
    /\ printed' = printed \cup {"analysis"}
    /\ pc' = "exit0"
    /\ UNCHANGED <<script, cfgN, cfgA, jobsLeft, built, submitted, retrieved,
                   extracted, connected, counts, exc, raisedAt, swallowed,
                   defaulted, trivial, fn>>

\* A step other than the guarded register read raises.
RaisingPcs == {"module", "main", "connect", "build", "submit", "result",
               "extract", "final", "analyze"}

Raise ==
    /\ pc \in RaisingPcs
    /\ \E cls \in ExcClasses : Propagate(cls)
    /\ UNCHANGED <<script, cfgN, cfgA, jobsLeft, built, submitted, retrieved,
                   extracted, connected, counts, swallowed, defaulted,
                   trivial, printed, fn>>

\* A handler that tries the job again.
HandlerRetry ==
    /\ pc = "handler"
    /\ printed' = printed \cup {"error", "hint"}
    /\ pc' = IF submitted > 0 THEN "submit" ELSE "exit0"
    /\ jobsLeft' = IF submitted > 0 THEN jobsLeft + 1 ELSE jobsLeft
    /\ exc' = exc
    /\ UNCHANGED <<script, cfgN, cfgA, built, submitted, retrieved, extracted,
                   connected, counts, raisedAt, swallowed, defaulted, trivial,
                   fn>>

\* except Exception as e: print the error and the credential hint
Handler ==
    /\ pc = "handler"
    /\ printed' = printed \cup {"error", "hint"}
    /\ pc' = "exit0"
    /\ UNCHANGED <<script, cfgN, cfgA, jobsLeft, built, submitted, retrieved,
                   extracted, connected, counts, exc, raisedAt, swallowed,
                   defaulted, trivial, fn>>

Next ==
    \/ ModuleBody
    \/ Main
    \/ Validate
    \/ Connect
    \/ Build
    \/ Submit
    \/ Result
    \/ Extract
    \/ Final
    \/ Analyze
    \/ Raise
    \/ Handler

Spec == Init /\ [][Next]_vars

(***************************************************************************)
(* Part 2: circuits on computational-basis states                          *)
(*                                                                         *)
(* A register is a sequence of bits, qubit i at position i + 1.  A gate is *)
(* a record; X, CX and SWAP permute basis states, which is all the         *)
(* circuits studied here use between preparation and measurement.          *)
(* A Python string is a sequence of one-character strings.                 *)
(***************************************************************************)

Xor(b1, b2) == (b1 + b2) % 2

GateX(i) == [name |-> "x", a |-> i, b |-> i]
GateCX(c, tg) == [name |-> "cx", a |-> c, b |-> tg]
GateSwap(i, j) == [name |-> "swap", a |-> i, b |-> j]

\* The action of one gate on a basis state.
ApplyGate(g, q) ==
    CASE g.name = "x" -> [q EXCEPT ![g.a + 1] = 1 - q[g.a + 1]]
      [] g.name = "cx" -> [q EXCEPT ![g.b + 1] = Xor(q[g.b + 1], q[g.a + 1])]
      [] g.name = "swap" -> [q EXCEPT ![g.a + 1] = q[g.b + 1],
                                      ![g.b + 1] = q[g.a + 1]]

Zeros(n) == [i \in 1..n |-> 0]

\* int(c) and str(b) for one binary digit
DigitOf(c) == IF c = "1" THEN 1 ELSE 0
CharOf(b) == IF b = 1 THEN "1" ELSE "0"

\* The key of get_counts() for a register measured qubit i -> clbit i:
\* the highest classical bit comes first.
CountKey(q, nbits) == [k \in 1..nbits |-> CharOf(q[nbits - k + 1])]

\* s[-k] of a Python string
FromEnd(s, k) == s[Len(s) - k + 1]

\* The run variables stay at the start of the given script's run.
RunOf(s) ==
    /\ RunInit
    /\ script = s
    /\ (s = "shor-algorithm" => cfgN = 15 /\ cfgA = 7)

RunUnchanged ==
    UNCHANGED <<script, cfgN, cfgA, pc, jobsLeft, built, submitted, retrieved,
                extracted, connected, counts, exc, raisedAt, swallowed,
                defaulted, trivial, printed>>

(***************************************************************************)
(* Part 2a: the 3-qubit bit-flip code (specification SpecBitFlip)          *)
(***************************************************************************)

NoneQ == -1
MaxNoiseFlips == 1

\* create_bit_flip_code_circuit: the gates before the measurement
create_bit_flip_code_circuit(initial_state, error_qubit) ==
    (IF initial_state = "1" THEN <<GateX(0)>> ELSE <<>>)
    \o <<GateCX(0, 1), GateCX(0, 2)>>
    \o (IF error_qubit # NoneQ /\ 0 <= error_qubit /\ error_qubit <= 2
          THEN <<GateX(error_qubit)>> ELSE <<>>)
    \o <<GateCX(0, 3), GateCX(1, 3), GateCX(1, 4), GateCX(2, 4)>>

\* apply_correction(data_bits, syndrome): data_bits = [q0, q1, q2]
apply_correction(data_bits, syndrome) ==
    LET corrected ==
            IF syndrome = <<"1", "0">>
              THEN [data_bits EXCEPT ![1] = 1 - data_bits[1]]
            ELSE IF syndrome = <<"0", "1">>
              THEN [data_bits EXCEPT ![3] = 1 - data_bits[3]]
            ELSE IF syndrome = <<"1", "1">>
              THEN [data_bits EXCEPT ![2] = 1 - data_bits[2]]
            ELSE data_bits
    IN  IF corrected[1] + corrected[2] + corrected[3] >= 2 THEN 1 ELSE 0

\* analyze_results, for one key of counts: the syndrome string and the value
\* after correction
BitFlipSyndrome(bits) ==
    LET anc0 == DigitOf(FromEnd(bits, 4))
        anc1 == DigitOf(FromEnd(bits, 5))
    IN  <<CharOf(anc1), CharOf(anc0)>>

BitFlipCorrected(bits) ==
    LET q0 == DigitOf(FromEnd(bits, 1))
        q1 == DigitOf(FromEnd(bits, 2))
        q2 == DigitOf(FromEnd(bits, 3))
    IN  apply_correction(<<q0, q1, q2>>, BitFlipSyndrome(bits))

BitFlipInit ==
    /\ RunOf("bit-flip-code")
    /\ \E initial_state \in {"0", "1"}, error_qubit \in {NoneQ, 0, 1, 2, 3} :
          fn = [op |-> "bit_flip",
                initial_state |-> initial_state,
                error_qubit |-> error_qubit,
                gates |-> create_bit_flip_code_circuit(initial_state, error_qubit),
                done |-> 0,
                q |-> Zeros(5),
                noise |-> 0,
                bits |-> <<>>,
                syndrome |-> <<>>,
                corrected |-> -1,
                stage |-> "circuit"]

\* The backend executes the next gate of the circuit.
BitFlipGate ==
    /\ fn.op = "bit_flip" /\ fn.stage = "circuit"
    /\ fn.done < Len(fn.gates)
    /\ fn' = [fn EXCEPT !.done = fn.done + 1,
                        !.q = ApplyGate(fn.gates[fn.done + 1], fn.q)]
    /\ RunUnchanged

\* Hardware noise flips a qubit.
BitFlipNoise ==
    /\ fn.op = "bit_flip" /\ fn.stage = "circuit"
    /\ fn.noise < MaxNoiseFlips
    /\ \E i \in 0..4 :
          fn' = [fn EXCEPT !.noise = fn.noise + 1,
                           !.q = ApplyGate(GateX(i), fn.q)]
    /\ RunUnchanged

\* qc.measure([0, 1, 2, 3, 4], [0, 1, 2, 3, 4]) and the key of counts
BitFlipMeasure ==
    /\ fn.op = "bit_flip" /\ fn.stage = "circuit"
    /\ fn.done = Len(fn.gates)
    /\ fn' = [fn EXCEPT !.bits = CountKey(fn.q, 5), !.stage = "measured"]
    /\ RunUnchanged

\* analyze_results on that key
BitFlipAnalyze ==
    /\ fn.op = "bit_flip" /\ fn.stage = "measured"
    /\ fn' = [fn EXCEPT !.syndrome = BitFlipSyndrome(fn.bits),
                        !.corrected = BitFlipCorrected(fn.bits),
                        !.stage = "analyzed"]
    /\ RunUnchanged

BitFlipNext == BitFlipGate \/ BitFlipNoise \/ BitFlipMeasure \/ BitFlipAnalyze

SpecBitFlip == BitFlipInit /\ [][BitFlipNext]_vars

\* The syndrome the documentation of apply_correction gives each error.
DocumentedSyndrome(error_qubit) ==
    CASE error_qubit = 0 -> <<"1", "0">>
      [] error_qubit = 1 -> <<"1", "1">>
      [] error_qubit = 2 -> <<"0", "1">>
      [] OTHER -> <<"0", "0">>

\* C5: on a noise-free run with error_qubit in {None, 0, 1, 2} the syndrome
\* analyze_results builds is the documented one ('00' none, '10' qubit 0,
\* '11' qubit 1, '01' qubit 2) and apply_correction returns the initial
\* logical value.
C5_SyndromeAndCorrection ==
    fn.op = "bit_flip" /\ fn.stage = "analyzed" /\ fn.noise = 0
        /\ fn.error_qubit \in {NoneQ, 0, 1, 2}
      => /\ fn.syndrome = DocumentedSyndrome(fn.error_qubit)
         /\ fn.corrected = DigitOf(fn.initial_state)

(***************************************************************************)
(* Part 2b: Shor's modular multiplication (specification SpecShorMul)      *)
(***************************************************************************)

WorkQubits == 4

\* The basis state of an n-qubit register holding x, qubit 0 least significant
\* (create_shor_circuit prepares |1> with an X on work qubit 0).
BitsOf(x, n) == [i \in 1..n |-> (x \div Pow(2, i - 1)) % 2]

RECURSIVE ValueOf(_)
ValueOf(q) ==
    IF Len(q) = 0 THEN 0 ELSE q[1] + 2 * ValueOf(Tail(q))

\* create_controlled_modular_multiplication(a, N): the gates of the circuit
create_controlled_modular_multiplication(a, N) ==
    IF N = 15 /\ a = 7
      THEN <<GateSwap(0, 1), GateSwap(1, 2), GateSwap(2, 3)>>
    ELSE IF N = 15 /\ a = 11
      THEN <<GateSwap(0, 3), GateSwap(1, 2)>>
    ELSE IF N = 15 /\ a = 13
      THEN <<GateSwap(0, 1), GateSwap(2, 3)>>
    ELSE IF N = 15 /\ a = 4
      THEN <<GateSwap(0, 2), GateSwap(1, 3)>>
    ELSE IF N = 15 /\ a = 2
      THEN <<GateSwap(0, 1), GateSwap(1, 2), GateSwap(2, 3)>>
    ELSE <<>>

\* modular_exponentiation(a, power, N): square and multiply
RECURSIVE ModExpLoop(_, _, _, _)
ModExpLoop(result, a, power, N) ==
    IF power > 0
      THEN ModExpLoop(IF power % 2 = 1 THEN (result * a) % N ELSE result,
                      (a * a) % N, power \div 2, N)
      ELSE result

modular_exponentiation(a, power, N) == ModExpLoop(1, a % N, power, N)

\* The multipliers create_shor_circuit can ask for: a^(2^q) mod N
ShorMulNs == {15, 21}
ShorMulAs == {1, 2, 4, 7, 8, 11, 13, 14}

ShorMulInit ==
    /\ RunOf("shor-algorithm")
    /\ \E a \in ShorMulAs, N \in ShorMulNs, x \in 0..(Pow(2, WorkQubits) - 1) :
          fn = [op |-> "modmul", a |-> a, N |-> N, x |-> x,
                gates |-> create_controlled_modular_multiplication(a, N),
                done |-> 0,
                q |-> BitsOf(x, WorkQubits),
                value |-> x,
                stage |-> "circuit"]

\* The next swap of U_a acts on the work register.
ShorMulGate ==
    /\ fn.op = "modmul" /\ fn.stage = "circuit"
    /\ fn.done < Len(fn.gates)
    /\ fn' = [fn EXCEPT !.done = fn.done + 1,
                        !.q = ApplyGate(fn.gates[fn.done + 1], fn.q)]
    /\ RunUnchanged

\* The circuit is through: the value the work register holds.
ShorMulEnd ==
    /\ fn.op = "modmul" /\ fn.stage = "circuit"
    /\ fn.done = Len(fn.gates)
    /\ fn' = [fn EXCEPT !.value = ValueOf(fn.q), !.stage = "done"]
    /\ RunUnchanged

ShorMulNext == ShorMulGate \/ ShorMulEnd

SpecShorMul == ShorMulInit /\ [][ShorMulNext]_vars

\* C6: for N = 15 and a in {2, 4, 7, 11, 13} the circuit maps every basis value
\* x in 1..14 of the work register to a*x mod 15.
C6_MultipliesModN ==
    fn.op = "modmul" /\ fn.stage = "done" /\ fn.N = 15
        /\ fn.a \in {2, 4, 7, 11, 13} /\ fn.x \in 1..14
      => fn.value = (fn.a * fn.x) % 15

(***************************************************************************)
(* Part 2c: analyze_shor_measurement (specification SpecShorMeasure)       *)
(***************************************************************************)

\* Python's None and a value that is not None
None == <<>>
Some(v) == <<v>>

Abs(i) == IF i < 0 THEN -i ELSE i

\* Fraction(phase): measurement / 2**n_count is exact in a float, and Fraction
\* reduces it to lowest terms.
FractionOf(num, den) ==
    LET g == gcd(num, den) IN [num |-> num \div g, den |-> den \div g]

\* The loop of Fraction.limit_denominator: the continued-fraction convergents
\* with a denominator not above max_denominator.
RECURSIVE ConvergentsLoop(_, _, _, _, _, _, _)
ConvergentsLoop(p0, q0, p1, q1, n, d, max_denominator) ==
    LET a == n \div d
        q2 == q0 + a * q1
    IN  IF q2 > max_denominator
          THEN [p0 |-> p0, q0 |-> q0, p1 |-> p1, q1 |-> q1]
          ELSE ConvergentsLoop(p1, q1, p0 + a * p1, q2, d, n - a * d,
                               max_denominator)

\* Fraction.limit_denominator(max_denominator): the closest fraction with a
\* denominator of at most max_denominator, the convergent winning a tie.
limit_denominator(frac, max_denominator) ==
    IF frac.den <= max_denominator
      THEN frac
      ELSE LET c == ConvergentsLoop(0, 1, 1, 0, frac.num, frac.den,
                                    max_denominator)
               k == (max_denominator - c.q0) \div c.q1
               bound1 == FractionOf(c.p0 + k * c.p1, c.q0 + k * c.q1)
               bound2 == FractionOf(c.p1, c.q1)
               err1 == Abs(bound1.num * frac.den - frac.num * bound1.den)
                           * bound2.den
               err2 == Abs(bound2.num * frac.den - frac.num * bound2.den)
                           * bound1.den
           IN  IF err2 <= err1 THEN bound2 ELSE bound1

\* factors: the guesses with 1 < guess < N, in the order guess1, guess2
ShorFactors(guess1, guess2, N) ==
    (IF 1 < guess1 /\ guess1 < N THEN <<guess1>> ELSE <<>>)
    \o (IF 1 < guess2 /\ guess2 < N THEN <<guess2>> ELSE <<>>)

\* The function as its docstring describes it: (None, None) whenever no factor
\* is found.
analyze_shor_measurement_as_documented(measurement, n_count, N, a) ==
    IF measurement = 0
      THEN [r |-> None, factors |-> None]
      ELSE LET frac == limit_denominator(
                           FractionOf(measurement, Pow(2, n_count)), N)
               r == frac.den
               x == modular_exponentiation(a, r \div 2, N)
               factors == ShorFactors(gcd(x - 1, N), gcd(x + 1, N), N)
           IN  IF r = 0 \/ r % 2 # 0 \/ factors = <<>>
                 THEN [r |-> None, factors |-> None]
                 ELSE [r |-> Some(r), factors |-> Some(factors)]

\* analyze_shor_measurement(measurement, n_count, N, a)
analyze_shor_measurement(measurement, n_count, N, a) ==
    IF measurement = 0
      THEN [r |-> None, factors |-> None]
      ELSE LET frac == limit_denominator(
                           FractionOf(measurement, Pow(2, n_count)), N)
               r == frac.den
               x == modular_exponentiation(a, r \div 2, N)
               factors == ShorFactors(gcd(x - 1, N), gcd(x + 1, N), N)
           IN  IF r = 0 \/ r % 2 # 0
                 THEN [r |-> Some(r), factors |-> None]
                 ELSE [r |-> Some(r),
                       factors |-> IF factors # <<>> THEN Some(factors)
                                                     ELSE None]

MaxCount == 4
ShorMeasureNs == {15, 21}
ShorMeasureAs == {2, 7, 14}

ShorMeasureInit ==
    /\ RunOf("shor-algorithm")
    /\ \E n_count \in 1..MaxCount, N \in ShorMeasureNs, a \in ShorMeasureAs :
         \E measurement \in 0..(Pow(2, n_count) - 1) :
            fn = [op |-> "analyze_shor_measurement",
                  measurement |-> measurement, n_count |-> n_count,
                  N |-> N, a |-> a,
                  r |-> None, factors |-> None,
                  stage |-> "called"]

ShorMeasureReturn ==
    /\ fn.op = "analyze_shor_measurement" /\ fn.stage = "called"
    /\ LET res == analyze_shor_measurement(fn.measurement, fn.n_count,
                                           fn.N, fn.a)
       IN  fn' = [fn EXCEPT !.r = res.r, !.factors = res.factors,
                            !.stage = "returned"]
    /\ RunUnchanged

ShorMeasureNext == ShorMeasureReturn

SpecShorMeasure == ShorMeasureInit /\ [][ShorMeasureNext]_vars

MaxN == 3

\* The binary strings of length n, as sequences of the characters "0", "1"
BinaryStrings(n) == [1..n -> {"0", "1"}]

\* The basis states of an n-qubit register
BitVectors(n) == [1..n -> {0, 1}]

\* '0' * n
ZeroString(n) == [i \in 1..n |-> "0"]

\* [int(b) for b in eq]
IntsOf(str) == [i \in 1..Len(str) |-> DigitOf(str[i])]

\* secret_string.index('1'), 0-based
IndexOfOne(secret_string) ==
    (CHOOSE i \in 1..Len(secret_string) :
        /\ secret_string[i] = "1"
        /\ \A j \in 1..(i - 1) : secret_string[j] # "1") - 1

\* The 0-based positions i of a sequence with seq[i] = v, in increasing order
PositionsOf(seq, v) ==
    LET Holds(i) == seq[i + 1] = v
    IN  SelectSeq([i \in 1..Len(seq) |-> i - 1], Holds)

\* The first loop of create_simon_oracle: copy the input to the output
SimonCopyGates(n) == [i \in 1..n |-> GateCX(i - 1, n + i - 1)]

\* The oracle without its second loop
create_simon_oracle_copy_only(secret_string) ==
    SimonCopyGates(Len(secret_string))

\* create_simon_oracle(secret_string): the gates of the circuit
create_simon_oracle(secret_string) ==
    LET n == Len(secret_string)
    IN  IF \E i \in 1..n : secret_string[i] = "1"
          THEN LET control_bit == IndexOfOne(secret_string)
                   ones == PositionsOf(secret_string, "1")
               IN  SimonCopyGates(n)
                   \o [k \in 1..Len(ones) |-> GateCX(control_bit, n + ones[k])]
          ELSE SimonCopyGates(n)

SimonOracleInit ==
    /\ RunOf("simon-algorithm")
    /\ \E n \in 1..MaxN :
         \E secret_string \in BinaryStrings(n), x \in BitVectors(n),
            y \in BitVectors(n) :
            fn = [op |-> "simon_oracle", secret_string |-> secret_string,
                  x |-> x, y |-> y,
                  gates |-> create_simon_oracle(secret_string),
                  done |-> 0,
                  qx |-> x \o Zeros(n), qy |-> y \o Zeros(n),
                  stage |-> "circuit"]

\* The next gate of the oracle acts on |x>|0> and on |y>|0>.
SimonOracleGate ==
    /\ fn.op = "simon_oracle" /\ fn.stage = "circuit"
    /\ fn.done < Len(fn.gates)
    /\ fn' = [fn EXCEPT !.done = fn.done + 1,
                        !.qx = ApplyGate(fn.gates[fn.done + 1], fn.qx),
                        !.qy = ApplyGate(fn.gates[fn.done + 1], fn.qy)]
    /\ RunUnchanged

SimonOracleEnd ==
    /\ fn.op = "simon_oracle" /\ fn.stage = "circuit"
    /\ fn.done = Len(fn.gates)
    /\ fn' = [fn EXCEPT !.stage = "done"]
    /\ RunUnchanged

SimonOracleNext == SimonOracleGate \/ SimonOracleEnd

SpecSimonOracle == SimonOracleInit /\ [][SimonOracleNext]_vars

\* The input and the output half of a 2n-qubit register
InputOf(q) == SubSeq(q, 1, Len(q) \div 2)
OutputOf(q) == SubSeq(q, Len(q) \div 2 + 1, Len(q))

XorVec(u, v) == [i \in 1..Len(u) |-> Xor(u[i], v[i])]

\* C8: for every secret string s (all zeros included) the function f the
\* oracle writes into the zeroed output register satisfies f(x) = f(y) if and
\* only if x XOR y is 0 or s; the input register is left as it was.
C8_TwoToOne ==
    fn.op = "simon_oracle" /\ fn.stage = "done"
      => /\ InputOf(fn.qx) = fn.x /\ InputOf(fn.qy) = fn.y
         /\ (OutputOf(fn.qx) = OutputOf(fn.qy)
               <=> XorVec(fn.x, fn.y) \in {Zeros(Len(fn.x)),
                                          IntsOf(fn.secret_string)})

C8_Witness ==
    /\ fn.op = "simon_oracle" /\ fn.stage = "done"
    /\ Len(fn.secret_string) = 3
    /\ IntsOf(fn.secret_string) # Zeros(3)
    /\ fn.x # fn.y
    /\ XorVec(fn.x, fn.y) = IntsOf(fn.secret_string)
    /\ OutputOf(fn.qx) = OutputOf(fn.qy)

(***************************************************************************)
(* Part 2e: Simon's post-processing (specification SpecSimonSolve)         *)
(***************************************************************************)

MaxEqs == 2

\* sum(int(x) * int(y) for x, y in zip(a, b))
RECURSIVE DotSum(_, _)
DotSum(a, b) ==
    IF Len(a) = 0 \/ Len(b) = 0
      THEN 0
      ELSE DigitOf(a[1]) * DigitOf(b[1]) + DotSum(Tail(a), Tail(b))

dot_product_mod2(a, b) == DotSum(a, b) % 2

\* format(candidate, '0nb'): the most significant digit first, padded to n
FormatBinary(candidate, n) ==
    [k \in 1..n |-> CharOf((candidate \div Pow(2, n - k)) % 2)]

\* The rows of the matrix: the equations that are not '0' * n
MatrixOf(equations, n) ==
    LET NonTrivial(eq) == eq # ZeroString(n)
    IN  [i \in 1..Len(SelectSeq(equations, NonTrivial)) |->
            IntsOf(SelectSeq(equations, NonTrivial)[i])]

\* The row reduction over GF(2); col and pivot_row are counted from 1 here
RECURSIVE RowReduce(_, _, _)
RowReduce(matrix, col, pivot_row) ==
    LET num_rows == Len(matrix)
        num_cols == Len(matrix[1])
    IN  IF col > num_cols \/ pivot_row > num_rows
          THEN matrix
          ELSE LET rows == {r \in pivot_row..num_rows : matrix[r][col] = 1}
               IN  IF rows = {}
                     THEN RowReduce(matrix, col + 1, pivot_row)
                     ELSE LET row == CHOOSE r \in rows :
                                        \A r2 \in rows : r <= r2
                              swapped == [matrix EXCEPT
                                            ![pivot_row] = matrix[row],
                                            ![row] = matrix[pivot_row]]
                              eliminated ==
                                [r \in 1..num_rows |->
                                   IF r # pivot_row /\ swapped[r][col] = 1
                                     THEN XorVec(swapped[r],
                                                 swapped[pivot_row])
                                     ELSE swapped[r]]
                          IN  RowReduce(eliminated, col + 1, pivot_row + 1)

\* The search over candidate = 1 .. 2**n - 1 for the first string orthogonal
\* to every equation that is not '0' * n
RECURSIVE FirstCandidate(_, _, _)
FirstCandidate(candidate, equations, n) ==
    IF candidate >= Pow(2, n)
      THEN ZeroString(n)
      ELSE LET s_candidate == FormatBinary(candidate, n)
           IN  IF \A i \in 1..Len(equations) :
                     equations[i] = ZeroString(n)
                       \/ dot_product_mod2(equations[i], s_candidate) = 0
                 THEN s_candidate
                 ELSE FirstCandidate(candidate + 1, equations, n)

\* solve_linear_system(equations, n): the reduced matrix and the string returned
solve_linear_system(equations, n) ==
    LET matrix == MatrixOf(equations, n)
    IN  IF matrix = <<>>
          THEN [matrix |-> matrix, result |-> ZeroString(n)]
          ELSE [matrix |-> RowReduce(matrix, 1, 1),
                result |-> FirstCandidate(1, equations, n)]

\* The lists of at most MaxEqs measured strings of length n
EquationLists(n) ==
    UNION {[1..len -> BinaryStrings(n)] : len \in 0..MaxEqs}

SimonSolveInit ==
    /\ RunOf("simon-algorithm")
    /\ \E n \in 1..MaxN :
         \E secret_string \in BinaryStrings(n),
            equations \in EquationLists(n) :
            fn = [op |-> "solve_linear_system",
                  secret_string |-> secret_string,
                  equations |-> equations, n |-> n,
                  matrix |-> <<>>, result |-> <<>>,
                  stage |-> "called"]

SimonSolveReturn ==
    /\ fn.op = "solve_linear_system" /\ fn.stage = "called"
    /\ LET res == solve_linear_system(fn.equations, fn.n)
       IN  fn' = [fn EXCEPT !.matrix = res.matrix, !.result = res.result,
                            !.stage = "returned"]
    /\ RunUnchanged

SimonSolveNext == SimonSolveReturn

SpecSimonSolve == SimonSolveInit /\ [][SimonSolveNext]_vars

\* The XOR of a set of bit vectors of length n
RECURSIVE XorAll(_, _)
XorAll(S, n) ==
    IF S = {}
      THEN Zeros(n)
      ELSE LET v == CHOOSE v \in S : TRUE
           IN  XorVec(v, XorAll(S \ {v}, n))

LinearlyIndependent(T, n) ==
    \A U \in (SUBSET T) \ {{}} : XorAll(U, n) # Zeros(n)

\* The equations contain k linearly independent strings.
ContainsIndependent(equations, n, k) ==
    \E T \in SUBSET {IntsOf(equations[i]) : i \in 1..Len(equations)} :
        Cardinality(T) = k /\ LinearlyIndependent(T, n)

\* C9: for a non-zero secret s of length n >= 1 and equations all orthogonal to
\* s that contain n-1 linearly independent strings, solve_linear_system
\* returns s, and so does not return '0' * n.
C9_SolverReturnsSecret ==
    /\ fn.op = "solve_linear_system" /\ fn.stage = "returned"
    /\ fn.secret_string # ZeroString(fn.n)
    /\ \A i \in 1..Len(fn.equations) :
          dot_product_mod2(fn.equations[i], fn.secret_string) = 0
    /\ ContainsIndependent(fn.equations, fn.n, fn.n - 1)
    => /\ fn.result = fn.secret_string
       /\ fn.result # ZeroString(fn.n)

(***************************************************************************)
(* Part 2f: the Deutsch-Jozsa balanced oracle (specification SpecDJ)       *)
(***************************************************************************)

MaxQubits == 4

\* create_balanced_oracle(n_qubits, pattern): the gates of the circuit
create_balanced_oracle(n_qubits, pattern) ==
    LET p == IF pattern = None THEN [i \in 1..n_qubits |-> 1]
                               ELSE pattern[1]
        ones == PositionsOf(p, 1)
    IN  [k \in 1..Len(ones) |-> GateCX(ones[k], n_qubits)]

\* pattern: None, or a list of n_qubits bits
Patterns(n_qubits) == {None} \cup {Some(p) : p \in BitVectors(n_qubits)}

\* |x>|0> for every basis input x of the n input qubits, at index x + 1
AllInputs(n_qubits) ==
    [k \in 1..Pow(2, n_qubits) |-> BitsOf(k - 1, n_qubits) \o <<0>>]

DJInit ==
    /\ RunOf("deutsch-jozsa-algorithm")
    /\ \E n_qubits \in 1..MaxQubits :
         \E pattern \in Patterns(n_qubits) :
            fn = [op |-> "balanced_oracle", n_qubits |-> n_qubits,
                  pattern |-> pattern,
                  gates |-> create_balanced_oracle(n_qubits, pattern),
                  done |-> 0,
                  regs |-> AllInputs(n_qubits),
                  stage |-> "circuit"]

\* The next CNOT of the oracle acts on every basis input.
DJGate ==
    /\ fn.op = "balanced_oracle" /\ fn.stage = "circuit"
    /\ fn.done < Len(fn.gates)
    /\ fn' = [fn EXCEPT !.done = fn.done + 1,
                        !.regs = [k \in 1..Len(fn.regs) |->
                                    ApplyGate(fn.gates[fn.done + 1],
                                              fn.regs[k])]]
    /\ RunUnchanged

DJEnd ==
    /\ fn.op = "balanced_oracle" /\ fn.stage = "circuit"
    /\ fn.done = Len(fn.gates)
    /\ fn' = [fn EXCEPT !.stage = "done"]
    /\ RunUnchanged

DJNext == DJGate \/ DJEnd

SpecDJ == DJInit /\ [][DJNext]_vars

\* The inputs x (as indexes into regs) with f(x) = 1: the ancilla ends at 1
OnesOfF == {k \in 1..Len(fn.regs) : fn.regs[k][fn.n_qubits + 1] = 1}

\* C10: for every n_qubits >= 1 and every pattern (None or a list of n_qubits
\* bits) the function the oracle XORs into the ancilla is balanced: exactly
\* half of the 2^n inputs map to 1.
C10_Balanced ==
    fn.op = "balanced_oracle" /\ fn.stage = "done"
      => 2 * Cardinality(OnesOfF) = Pow(2, fn.n_qubits)

(***************************************************************************)
(* Part 3: circuits with Hadamard gates, on state vectors                  *)
(*                                                                         *)
(* A state of nq qubits is the sequence of its 2^nq amplitudes, the        *)
(* amplitude of basis value v at index v + 1, qubit i being bit i of v.    *)
(* Amplitudes are integers: a Hadamard gate is applied without its factor  *)
(* 1/sqrt(2), which the probabilities below divide out again.              *)
(***************************************************************************)

GateH(i) == [name |-> "h", a |-> i, b |-> i]
GateZ(i) == [name |-> "z", a |-> i, b |-> i]

\* Bit i of the basis value v, and v with bit i flipped
BitAt(v, i) == (v \div Pow(2, i)) % 2
FlipBit(v, i) == IF BitAt(v, i) = 1 THEN v - Pow(2, i) ELSE v + Pow(2, i)

\* |0...0> on nq qubits
ZeroState(nq) == [k \in 1..Pow(2, nq) |-> IF k = 1 THEN 1 ELSE 0]

\* The action of one gate on a state vector.
ApplyGateAmp(g, amp) ==
    [k \in 1..Len(amp) |->
        LET v == k - 1
        IN  CASE g.name = "x" -> amp[FlipBit(v, g.a) + 1]
              [] g.name = "z" -> IF BitAt(v, g.a) = 1 THEN -amp[k] ELSE amp[k]
              [] g.name = "cx" -> IF BitAt(v, g.a) = 1
                                    THEN amp[FlipBit(v, g.b) + 1]
                                    ELSE amp[k]
              [] g.name = "h" -> IF BitAt(v, g.a) = 0
                                   THEN amp[k] + amp[FlipBit(v, g.a) + 1]
                                   ELSE amp[FlipBit(v, g.a) + 1] - amp[k]]

\* The key get_counts() gives the basis value v when classical bit j holds
\* the measurement of qubit measured[j + 1]: the highest classical bit first.
KeyOf(v, measured) ==
    [k \in 1..Len(measured) |->
        CharOf(BitAt(v, measured[Len(measured) - k + 1]))]

\* The sum of the squared amplitudes of a set of basis values
RECURSIVE Weight(_, _)
Weight(S, amp) ==
    IF S = {}
      THEN 0
      ELSE LET v == CHOOSE v \in S : TRUE
           IN  amp[v + 1] * amp[v + 1] + Weight(S \ {v}, amp)

\* The counts of a noise-free run: every key of non-zero probability, with
\* its share of the shots.
IdealCounts(amp, measured, shots) ==
    LET values == 0..(Len(amp) - 1)
        keys == {KeyOf(v, measured) : v \in {w \in values : amp[w + 1] # 0}}
    IN  [key \in keys |->
            (shots * Weight({v \in values : KeyOf(v, measured) = key}, amp))
                \div Weight(values, amp)]

\* sorted_counts[0][0]: a key with the highest count
MostCommonKeys(cnts) ==
    {key \in DOMAIN cnts : \A other \in DOMAIN cnts :
                               cnts[other] <= cnts[key]}

\* counts.get(key, 0)
CountsGet(cnts, key) == IF key \in DOMAIN cnts THEN cnts[key] ELSE 0

\* range(n)
Range(n) == [i \in 1..n |-> i - 1]

\* The shots a run is started with
ShotsChoices == {1, 16, 1024, 4096}

(***************************************************************************)
(* Part 3a: Bernstein-Vazirani (specification SpecBV)                      *)
(***************************************************************************)

\* create_bv_oracle(secret_string): the gates of the oracle
create_bv_oracle(secret_string) ==
    LET n == Len(secret_string)
        ones == PositionsOf(secret_string, "1")
    IN  [k \in 1..Len(ones) |-> GateCX(ones[k], n)]

\* create_bernstein_vazirani_circuit(secret_string): the gates, and the qubit
\* measured into each classical bit
create_bernstein_vazirani_circuit(secret_string) ==
    LET n == Len(secret_string)
    IN  [gates |-> <<GateX(n)>>
                   \o [i \in 1..(n + 1) |-> GateH(i - 1)]
                   \o create_bv_oracle(secret_string)
                   \o [i \in 1..n |-> GateH(i - 1)],
         measured |-> Range(n)]

BVInit ==
    /\ RunOf("bernstein-vazirani-algorithm")
    /\ \E n \in 1..MaxN :
         \E secret_string \in BinaryStrings(n), shots \in ShotsChoices :
            fn = [op |-> "bernstein_vazirani",
                  secret_string |-> secret_string, shots |-> shots,
                  circuit |-> create_bernstein_vazirani_circuit(secret_string),
                  done |-> 0,
                  amp |-> ZeroState(n + 1),
                  counts |-> <<>>,
                  most_common |-> <<>>, correct_count |-> 0,
                  success |-> FALSE,
                  stage |-> "circuit"]

\* The next gate of the circuit acts on the state.
BVGate ==
    /\ fn.op = "bernstein_vazirani" /\ fn.stage = "circuit"
    /\ fn.done < Len(fn.circuit.gates)
    /\ fn' = [fn EXCEPT !.done = fn.done + 1,
                        !.amp = ApplyGateAmp(fn.circuit.gates[fn.done + 1],
                                             fn.amp)]
    /\ RunUnchanged

\* qc.measure(range(n), range(n)) and get_counts() of a noise-free run
BVMeasure ==
    /\ fn.op = "bernstein_vazirani" /\ fn.stage = "circuit"
    /\ fn.done = Len(fn.circuit.gates)
    /\ fn' = [fn EXCEPT !.counts = IdealCounts(fn.amp, fn.circuit.measured,
                                               fn.shots),
                        !.stage = "measured"]
    /\ RunUnchanged

\* analyze_results(results) of the Bernstein-Vazirani script
BVAnalyze ==
    /\ fn.op = "bernstein_vazirani" /\ fn.stage = "measured"
    /\ IF DOMAIN fn.counts = {}
         THEN fn' = [fn EXCEPT !.stage = "no_counts"]
         ELSE \E most_common \in MostCommonKeys(fn.counts) :
                 fn' = [fn EXCEPT
                          !.most_common = most_common,
                          !.correct_count =
                              CountsGet(fn.counts, fn.secret_string),
                          !.success = (most_common = fn.secret_string),
                          !.stage = "analyzed"]
    /\ RunUnchanged

BVNext == BVGate \/ BVMeasure \/ BVAnalyze

SpecBV == BVInit /\ [][BVNext]_vars

\* C11: for every secret string the key analyze_results sees after a
\* noise-free run equals secret_string: it reports success, with all shots
\* counted as correct measurements.
C11_ReportsSecret ==
    fn.op = "bernstein_vazirani" /\ fn.stage \in {"analyzed", "no_counts"}
      => /\ fn.stage = "analyzed"
         /\ fn.most_common = fn.secret_string
         /\ fn.success
         /\ fn.correct_count = fn.shots

(***************************************************************************)
(* Part 3b: superdense coding (specification SpecSuperdense)               *)
(***************************************************************************)

MaxMessageLen == 3

\* len(message) != 2 or not all(b in '01' for b in message)
InvalidMessage(message) ==
    Len(message) # 2 \/ ~(\A i \in 1..Len(message) : message[i] \in {"0", "1"})

\* create_superdense_coding_circuit(message): the gates, and the qubit
\* measured into each classical bit
create_superdense_coding_circuit(message) ==
    [gates |-> <<GateH(0), GateCX(0, 1)>>
               \o (IF message[2] = "1" THEN <<GateX(0)>> ELSE <<>>)
               \o (IF message[1] = "1" THEN <<GateZ(0)>> ELSE <<>>)
               \o <<GateCX(0, 1), GateH(0)>>,
     measured |-> <<0, 1>>]

SuperdenseInit ==
    /\ RunOf("superdense-coding")
    /\ \E len \in 1..MaxMessageLen :
         \E message \in BinaryStrings(len), shots \in ShotsChoices :
            fn = [op |-> "superdense_coding",
                  message |-> message, shots |-> shots,
                  circuit |-> [gates |-> <<>>, measured |-> <<>>],
                  done |-> 0,
                  amp |-> ZeroState(2),
                  counts |-> <<>>,
                  most_common |-> <<>>, correct_count |-> 0,
                  success |-> FALSE,
                  stage |-> "called"]

\* create_superdense_coding_circuit is called: ValueError, or the circuit
SuperdenseCreate ==
    /\ fn.op = "superdense_coding" /\ fn.stage = "called"
    /\ IF InvalidMessage(fn.message)
         THEN fn' = [fn EXCEPT !.stage = "value_error"]
         ELSE fn' = [fn EXCEPT
                       !.circuit = create_superdense_coding_circuit(fn.message),
                       !.stage = "circuit"]
    /\ RunUnchanged

\* The next gate of the circuit acts on the state.
SuperdenseGate ==
    /\ fn.op = "superdense_coding" /\ fn.stage = "circuit"
    /\ fn.done < Len(fn.circuit.gates)
    /\ fn' = [fn EXCEPT !.done = fn.done + 1,
                        !.amp = ApplyGateAmp(fn.circuit.gates[fn.done + 1],
                                             fn.amp)]
    /\ RunUnchanged

\* qc.measure([0, 1], [0, 1]) and get_counts() of a noise-free run
SuperdenseMeasure ==
    /\ fn.op = "superdense_coding" /\ fn.stage = "circuit"
    /\ fn.done = Len(fn.circuit.gates)
    /\ fn' = [fn EXCEPT !.counts = IdealCounts(fn.amp, fn.circuit.measured,
                                               fn.shots),
                        !.stage = "measured"]
    /\ RunUnchanged

\* analyze_results(results) of the superdense coding script
SuperdenseAnalyze ==
    /\ fn.op = "superdense_coding" /\ fn.stage = "measured"
    /\ IF DOMAIN fn.counts = {}
         THEN fn' = [fn EXCEPT !.stage = "no_counts"]
         ELSE \E most_common \in MostCommonKeys(fn.counts) :
                 fn' = [fn EXCEPT
                          !.most_common = most_common,
                          !.correct_count = CountsGet(fn.counts, fn.message),
                          !.success = (most_common = fn.message),
                          !.stage = "analyzed"]
    /\ RunUnchanged

SuperdenseNext ==
    \/ SuperdenseCreate
    \/ SuperdenseGate
    \/ SuperdenseMeasure
    \/ SuperdenseAnalyze

SpecSuperdense == SuperdenseInit /\ [][SuperdenseNext]_vars

\* C12: for each of the messages '00', '01', '10', '11' the key Bob obtains
\* from a noise-free run equals the message Alice sent, and analyze_results
\* reports a correct decoding.
C12_DecodesMessage ==
    fn.op = "superdense_coding" /\ fn.stage \in {"analyzed", "no_counts"}
      => /\ fn.stage = "analyzed"
         /\ fn.most_common = fn.message
         /\ fn.success
         /\ fn.correct_count = fn.shots

(***************************************************************************)
(* Part 2g: the shift operator of the quantum walk (specification          *)
(* SpecWalkShift)                                                          *)
(***************************************************************************)

\* 1 coin qubit + n_position_qubits = 2 position qubits
WalkQubits == 3

GateCCX(c1, c2, tg) == [name |-> "ccx", a |-> c1, b |-> c2, c |-> tg]

\* The action of one gate of the shift operator on a basis state.
ApplyShiftGate(g, q) ==
    IF g.name = "ccx"
      THEN [q EXCEPT ![g.c + 1] = Xor(q[g.c + 1], q[g.a + 1] * q[g.b + 1])]
      ELSE ApplyGate(g, q)

\* create_shift_operator(qc, coin_qubit, position_qubits): the gates appended
create_shift_operator(coin_qubit, position_qubits) ==
    LET n_pos == Len(position_qubits)
    IN  (IF n_pos = 2
           THEN <<GateCX(coin_qubit, position_qubits[1]),
                  GateCCX(coin_qubit, position_qubits[1], position_qubits[2])>>
           ELSE <<>>)
        \o <<GateX(coin_qubit)>>
        \o (IF n_pos = 2
              THEN <<GateCCX(coin_qubit, position_qubits[1],
                             position_qubits[2]),
                     GateCX(coin_qubit, position_qubits[1])>>
              ELSE <<>>)
        \o <<GateX(coin_qubit)>>

\* The lists of one or two distinct qubits that are not the coin qubit
PositionLists(coin_qubit) ==
    LET others == (0..(WalkQubits - 1)) \ {coin_qubit}
    IN  {<<a>> : a \in others}
          \cup {pair \in others \X others : pair[1] # pair[2]}

\* p = 2 * q[position_qubits[1]] + q[position_qubits[0]]
PositionOf(q, position_qubits) ==
    2 * q[position_qubits[2] + 1] + q[position_qubits[1] + 1]

WalkShiftInit ==
    /\ RunOf("quantum-walk")
    /\ \E coin_qubit \in 0..(WalkQubits - 1), input \in BitVectors(WalkQubits) :
         \E position_qubits \in PositionLists(coin_qubit) :
            fn = [op |-> "shift_operator",
                  coin_qubit |-> coin_qubit,
                  position_qubits |-> position_qubits,
                  gates |-> create_shift_operator(coin_qubit, position_qubits),
                  done |-> 0,
                  input |-> input, q |-> input,
                  stage |-> "circuit"]

\* The next gate of the shift operator acts on the basis state.
WalkShiftGate ==
    /\ fn.op = "shift_operator" /\ fn.stage = "circuit"
    /\ fn.done < Len(fn.gates)
    /\ fn' = [fn EXCEPT !.done = fn.done + 1,
                        !.q = ApplyShiftGate(fn.gates[fn.done + 1], fn.q)]
    /\ RunUnchanged

WalkShiftEnd ==
    /\ fn.op = "shift_operator" /\ fn.stage = "circuit"
    /\ fn.done = Len(fn.gates)
    /\ fn' = [fn EXCEPT !.stage = "done"]
    /\ RunUnchanged

WalkShiftNext == WalkShiftGate \/ WalkShiftEnd

SpecWalkShift == WalkShiftInit /\ [][WalkShiftNext]_vars

\* C13: with a 2-qubit position register the shift operator maps position p
\* to (p + 1) mod 4 when the coin is 1 and to (p - 1) mod 4 when the coin is
\* 0, and leaves the coin qubit unchanged.
C13_ShiftFollowsCoin ==
    fn.op = "shift_operator" /\ fn.stage = "done"
        /\ Len(fn.position_qubits) = 2
      => LET coin == fn.input[fn.coin_qubit + 1]
             p == PositionOf(fn.input, fn.position_qubits)
         IN  /\ fn.q[fn.coin_qubit + 1] = coin
             /\ PositionOf(fn.q, fn.position_qubits)
                  = IF coin = 1 THEN (p + 1) % 4 ELSE (p + 3) % 4

(***************************************************************************)
(* Claims about a run                                                      *)
(***************************************************************************)

Finished == pc \in {"exit0", "traceback"}

\* C1 as stated: a run submits exactly one job; in particular no run submits
\* a second one.
C1_ExactlyOneJobPerRun == submitted <= 1

\* C1 amended: each sampler.run is followed by job.result() on that job before
\* the run builds or submits anything else, so at most one job is outstanding;
\* a run that ends without an exception has submitted JobsPerRun(script) jobs
\* (none when run_shor returns a trivial factorisation), which is 1 only for
\* the single-circuit scripts.
C1_OneJobOutstanding ==
    /\ retrieved <= submitted
    /\ submitted <= retrieved + 1
    /\ (pc \in {"connect", "build", "submit", "extract", "final", "analyze"}
          => submitted = retrieved)
    /\ (pc = "result" => submitted = retrieved + 1)
    /\ (pc = "exit0" /\ exc = "none"
          => submitted = IF trivial THEN 0 ELSE JobsPerRun(script))

C1_Witness ==
    /\ script = "e91-protocol"
    /\ pc = "exit0"
    /\ exc = "none"
    /\ submitted = ChshMeasurements + E91Rounds
    /\ retrieved = submitted

\* C2 as stated: every run builds and submits a circuit before it finishes,
\* with the steps in the order build, submit, retrieve, analyse.
C2_EveryRunSubmits ==
    /\ submitted <= built
    /\ retrieved <= submitted
    /\ (Finished => built >= 1 /\ submitted >= 1)

\* C2 amended: every job goes through build, submit, result, extraction in
\* that order, and the analysis is printed only after the counts of every
\* submitted job were extracted; a run may finish without having submitted.
C2_StepOrder ==
    /\ submitted <= built
    /\ retrieved <= submitted
    /\ extracted <= retrieved
    /\ (pc = "submit" => built > submitted /\ connected)
    /\ (pc = "extract" => extracted < retrieved)
    /\ ("analysis" \in printed
          => /\ extracted = submitted
             /\ submitted = IF trivial THEN 0 ELSE JobsPerRun(script))

C2_Witness ==
    /\ script = "deutsch-algorithm"
    /\ "analysis" \in printed
    /\ built = 1 /\ submitted = 1 /\ retrieved = 1 /\ extracted = 1
    /\ pc = "exit0"

\* C3 as stated, for the exceptions derived from Exception that are raised
\* inside the try block (the register reads of result retrieval included):
\* each ends in the top-level handler, which prints the error and the hint,
\* and the script ends normally.
C3_EveryExceptionReachesHandler ==
    Finished /\ HasMainGuard(script)
        /\ \/ swallowed > 0
           \/ exc # "none" /\ IsException(exc) /\ raisedAt # "module"
      => pc = "exit0" /\ {"error", "hint"} \subseteq printed

\* C3 amended: in a script with a __main__ block, an exception derived from
\* Exception that is raised inside the try block and leaves its step is caught
\* by the top-level handler, which prints the error and the hint, and the
\* script then ends normally; the handler runs for nothing else.
C3_HandlerCatchesExceptions ==
    /\ (exc # "none" /\ IsException(exc) /\ raisedAt # "module"
            /\ HasMainGuard(script)
          => /\ pc \in {"handler", "exit0"}
             /\ (pc = "exit0" => {"error", "hint"} \subseteq printed))
    /\ (pc = "handler" \/ "hint" \in printed
          => exc # "none" /\ IsException(exc) /\ HasMainGuard(script))

C3_Witness ==
    /\ script = "shor-algorithm"
    /\ cfgN = 2
    /\ exc = "ValueError"
    /\ raisedAt = "validate"
    /\ pc = "exit0"
    /\ {"error", "hint"} \subseteq printed

====
